---------------------------- MODULE Spec2Model ----------------------------
(***************************************************************************)
(* Model of the Ecspanse native query engine (native/ecspanse/src/lib.rs). *)
(*                                                                         *)
(* The library exposes five stateless NIFs.  Each call is modelled as an   *)
(* invocation from the idle state: the arguments are recorded in `args`,   *)
(* the returned term in `ret`.  Four NIFs are sequential loops and return  *)
(* in one step; query_filter_by_components runs rayon workers, modelled    *)
(* as one task per (clause, entity) pair finishing in any order.           *)
(***************************************************************************)
EXTENDS Naturals, Sequences, FiniteSets, TLC

VARIABLES
    pc,     \* "idle" | "running" | "returned"
    nif,    \* name of the NIF that was invoked ("none" before any call)
    args,   \* record of the arguments of the call
    order,  \* iteration order of the entities_components HashMap (matcher)
    kept,   \* per (clause, position) task: "pending" | "keep" | "drop"
    ret     \* [tag |-> "ok", term |-> the encoded result]

vars == <<pc, nif, args, order, kept, ret>>

----------------------------------------------------------------------------
(* Bounds and input universes *)

MaxPairs == 3
MaxIds == 2
MaxSelect == 2
MaxClauses == 2

Entities == {"e1", "e2", "e3"}
Tags == {"A", "B", "C"}

SeqsUpTo(S, n) == UNION {[1..k -> S] : k \in 0..n}

ToSet(s) == {s[i] : i \in 1..Len(s)}

\* All enumerations of a finite set as a duplicate-free sequence.
Orders(S) == {s \in [1..Cardinality(S) -> S] : ToSet(s) = S}

EmptyMap == <<>>

----------------------------------------------------------------------------
(* Terms crossing the NIF boundary *)

\* #[module = "Ecspanse.Entity"] struct Entity { id: String }
Entity(id) == [id |-> id]

\* rustler::types::atom::nil()
nil == [atom |-> "nil"]

\* an opaque component value held by the host
Value(n) == [term |-> n]

Ok(term) == [tag |-> "ok", term |-> term]

----------------------------------------------------------------------------
(* list_entities_components *)

\* Faulty variant: a tag already grouped under the key is not pushed again.
RECURSIVE into_group_map_dedup(_, _)
into_group_map_dedup(list, map) ==
    IF list = <<>> THEN map
    ELSE LET k == Head(list)[1]
             v == Head(list)[2]
         IN  into_group_map_dedup(Tail(list),
                 IF k \in DOMAIN map
                 THEN IF v \in {map[k][i] : i \in 1..Len(map[k])}
                      THEN map
                      ELSE [map EXCEPT ![k] = Append(@, v)]
                 ELSE (k :> <<v>>) @@ map)

RECURSIVE into_group_map(_, _)
into_group_map(list, map) ==
    IF list = <<>> THEN map
    ELSE LET k == Head(list)[1]
             v == Head(list)[2]
         IN  into_group_map(Tail(list),
                 IF k \in DOMAIN map
                 THEN [map EXCEPT ![k] = Append(@, v)]
                 ELSE (k :> <<v>>) @@ map)

list_entities_components(list) == into_group_map(list, EmptyMap)

----------------------------------------------------------------------------
(* query_filter_for_entities *)

RECURSIVE for_entities_loop(_, _, _)
for_entities_loop(entities_components, filter_entities, result) ==
    IF filter_entities = <<>> THEN result
    ELSE LET entity == Head(filter_entities)
         IN  for_entities_loop(entities_components, Tail(filter_entities),
                 IF entity.id \in DOMAIN entities_components
                 THEN (entity.id :> entities_components[entity.id]) @@ result
                 ELSE result)

\* Faulty variant: an empty filter list restricts to nothing.
query_filter_for_entities_strict(entities_components, filter_entities) ==
    for_entities_loop(entities_components, filter_entities, EmptyMap)

query_filter_for_entities(entities_components, filter_entities) ==
    IF filter_entities = <<>>
    THEN entities_components
    ELSE for_entities_loop(entities_components, filter_entities, EmptyMap)

----------------------------------------------------------------------------
(* query_filter_not_for_entities *)

remove(map, key) == [k \in (DOMAIN map) \ {key} |-> map[k]]

\* Faulty variant: only the first rejected entity is removed.
query_filter_not_for_entities_first(entities_components, reject_entities) ==
    IF reject_entities = <<>> THEN entities_components
    ELSE remove(entities_components, Head(reject_entities).id)

RECURSIVE query_filter_not_for_entities(_, _)
query_filter_not_for_entities(entities_components, reject_entities) ==
    IF reject_entities = <<>> THEN entities_components
    ELSE query_filter_not_for_entities(
             remove(entities_components, Head(reject_entities).id),
             Tail(reject_entities))

----------------------------------------------------------------------------
(* build_return_vectors *)

\* (entity_id, comp).encode(env)
Key(entity_id, comp) == <<entity_id, comp>>

\* Faulty variant: a missing mandatory value is filled with nil and the entity kept.
RECURSIVE mandatory_loop_fill(_, _, _, _)
mandatory_loop_fill(entity_id, comps, map, record) ==
    IF comps = <<>> THEN [record |-> record, clear |-> TRUE]
    ELSE mandatory_loop_fill(entity_id, Tail(comps), map,
             Append(record,
                    IF Key(entity_id, Head(comps)) \in DOMAIN map
                    THEN map[Key(entity_id, Head(comps))]
                    ELSE nil))

\* for comp in &select_components { ... else { clear = false; break; } }
RECURSIVE mandatory_loop(_, _, _, _)
mandatory_loop(entity_id, comps, map, record) ==
    IF comps = <<>> THEN [record |-> record, clear |-> TRUE]
    ELSE IF Key(entity_id, Head(comps)) \in DOMAIN map
         THEN mandatory_loop(entity_id, Tail(comps), map,
                             Append(record, map[Key(entity_id, Head(comps))]))
         ELSE [record |-> record, clear |-> FALSE]

\* Faulty variant: a missing optional value leaves its slot out.
RECURSIVE optional_loop_skip(_, _, _, _)
optional_loop_skip(entity_id, comps, map, record) ==
    IF comps = <<>> THEN record
    ELSE optional_loop_skip(entity_id, Tail(comps), map,
             IF Key(entity_id, Head(comps)) \in DOMAIN map
             THEN Append(record, map[Key(entity_id, Head(comps))])
             ELSE record)

\* for comp in &select_optional_components { ... else push nil }
RECURSIVE optional_loop(_, _, _, _)
optional_loop(entity_id, comps, map, record) ==
    IF comps = <<>> THEN record
    ELSE optional_loop(entity_id, Tail(comps), map,
             Append(record,
                    IF Key(entity_id, Head(comps)) \in DOMAIN map
                    THEN map[Key(entity_id, Head(comps))]
                    ELSE nil))

\* Faulty variant: the entity is pushed after the component values.
build_record_entity_last(return_entity, select_components, select_optional_components, entity_id, filtered_components_map) ==
    LET m  == mandatory_loop(entity_id, select_components,
                             filtered_components_map, <<>>)
        r  == optional_loop(entity_id, select_optional_components,
                            filtered_components_map, m.record)
    IN  [record |-> IF return_entity THEN Append(r, Entity(entity_id)) ELSE r,
         clear  |-> m.clear]

\* the body of `for entity_id in &entity_ids`
build_record(return_entity, select_components, select_optional_components, entity_id, filtered_components_map) ==
    LET r0 == IF return_entity THEN <<Entity(entity_id)>> ELSE <<>>
        m  == mandatory_loop(entity_id, select_components,
                             filtered_components_map, r0)
    IN  [record |-> optional_loop(entity_id, select_optional_components,
                                  filtered_components_map, m.record),
         clear  |-> m.clear]

\* Faulty variant: records are pushed at the front of the result.
RECURSIVE build_loop_front(_, _, _, _, _, _)
build_loop_front(return_entity, select_components, select_optional_components, entity_ids, filtered_components_map, result) ==
    IF entity_ids = <<>> THEN result
    ELSE LET b == build_record(return_entity, select_components,
                               select_optional_components, Head(entity_ids),
                               filtered_components_map)
         IN  build_loop_front(return_entity, select_components,
                        select_optional_components, Tail(entity_ids),
                        filtered_components_map,
                        IF b.clear THEN <<b.record>> \o result ELSE result)

RECURSIVE build_loop(_, _, _, _, _, _)
build_loop(return_entity, select_components, select_optional_components, entity_ids, filtered_components_map, result) ==
    IF entity_ids = <<>> THEN result
    ELSE LET b == build_record(return_entity, select_components,
                               select_optional_components, Head(entity_ids),
                               filtered_components_map)
         IN  build_loop(return_entity, select_components,
                        select_optional_components, Tail(entity_ids),
                        filtered_components_map,
                        IF b.clear THEN Append(result, b.record) ELSE result)

build_return_vectors(return_entity, select_components, select_optional_components, entity_ids, filtered_components_map) ==
    build_loop(return_entity, select_components, select_optional_components,
               entity_ids, filtered_components_map, <<>>)

----------------------------------------------------------------------------
(* Inputs of the sequential NIFs *)

PairLists == SeqsUpTo(Entities \X Tags, MaxPairs)

\* membership mappings as the index builder produces them
IndexedMappings == {list_entities_components(l) : l \in PairLists}

EntityLists == SeqsUpTo({Entity(e) : e \in Entities}, MaxIds)

BuildEntities == {"e1", "e2"}
BuildTags == {"A", "B"}
BuildKeys == BuildEntities \X BuildTags

\* host values: one distinct value per key, or an explicit nil stored as value
DistinctValues == [k \in BuildKeys |->
                      Value((IF k[1] = "e1" THEN 0 ELSE 2)
                            + (IF k[2] = "A" THEN 1 ELSE 2))]
NilValues == [k \in BuildKeys |-> nil]

Restrict(f, S) == [k \in S |-> f[k]]

ValueTables == {Restrict(v, K) : v \in {DistinctValues, NilValues},
                                 K \in SUBSET BuildKeys}

----------------------------------------------------------------------------
(* The sequential NIF calls *)

Init ==
    /\ pc = "idle"
    /\ nif = "none"
    /\ args = <<>>
    /\ order = <<>>
    /\ kept = <<>>
    /\ ret = Ok(<<>>)

Call_list_entities_components ==
    /\ pc = "idle"
    /\ \E list \in PairLists :
        /\ args' = [list |-> list]
        /\ ret' = Ok(list_entities_components(list))
    /\ nif' = "list_entities_components"
    /\ pc' = "returned"
    /\ UNCHANGED <<order, kept>>

Call_query_filter_for_entities ==
    /\ pc = "idle"
    /\ \E entities_components \in IndexedMappings,
          filter_entities \in EntityLists :
        /\ args' = [entities_components |-> entities_components,
                    filter_entities |-> filter_entities]
        /\ ret' = Ok(query_filter_for_entities(entities_components,
                                               filter_entities))
    /\ nif' = "query_filter_for_entities"
    /\ pc' = "returned"
    /\ UNCHANGED <<order, kept>>

Call_query_filter_not_for_entities ==
    /\ pc = "idle"
    /\ \E entities_components \in IndexedMappings,
          reject_entities \in EntityLists :
        /\ args' = [entities_components |-> entities_components,
                    reject_entities |-> reject_entities]
        /\ ret' = Ok(query_filter_not_for_entities(entities_components,
                                                   reject_entities))
    /\ nif' = "query_filter_not_for_entities"
    /\ pc' = "returned"
    /\ UNCHANGED <<order, kept>>

Call_build_return_vectors ==
    /\ pc = "idle"
    /\ \E return_entity \in BOOLEAN,
          select_components \in SeqsUpTo(BuildTags, MaxSelect),
          select_optional_components \in SeqsUpTo(BuildTags, MaxSelect),
          entity_ids \in SeqsUpTo(BuildEntities, MaxIds),
          filtered_components_map \in ValueTables :
        /\ args' = [return_entity |-> return_entity,
                    select_components |-> select_components,
                    select_optional_components |-> select_optional_components,
                    entity_ids |-> entity_ids,
                    filtered_components_map |-> filtered_components_map]
        /\ ret' = Ok(build_return_vectors(return_entity, select_components,
                         select_optional_components, entity_ids,
                         filtered_components_map))
    /\ nif' = "build_return_vectors"
    /\ pc' = "returned"
    /\ UNCHANGED <<order, kept>>

Next ==
    \/ Call_list_entities_components
    \/ Call_query_filter_for_entities
    \/ Call_query_filter_not_for_entities
    \/ Call_build_return_vectors

Spec == Init /\ [][Next]_vars

----------------------------------------------------------------------------
(* query_filter_by_components *)

\* Vec::contains
contains(vec, elem) == \E i \in 1..Len(vec) : vec[i] = elem

\* comp.with.iter().all(|elem| component_modules.contains(elem))
has_with_components(comp, component_modules) ==
    \A i \in 1..Len(comp.with) : contains(component_modules, comp.with[i])

\* !comp.without.iter().any(|elem| component_modules.contains(elem))
does_not_have_without_components(comp, component_modules) ==
    ~ \E i \in 1..Len(comp.without) :
          contains(component_modules, comp.without[i])

\* the closure handed to .filter(), as the verdict of one task
filter(comp, component_modules) ==
    IF /\ has_with_components(comp, component_modules)
       /\ does_not_have_without_components(comp, component_modules)
    THEN "keep"
    ELSE "drop"

\* one task per clause (outer par_iter) and map entry (inner par_iter)
Tasks(components, ord) == (1..Len(components)) \X (1..Len(ord))

\* .map(|(entity_id, _)| entity_id.clone()).collect::<Vec<String>>() of
\* clause c: the kept entity IDs, in the map's iteration order
inner_collect(c, ord, verdicts) ==
    LET idx == SelectSeq([j \in 1..Len(ord) |-> j],
                         LAMBDA j : verdicts[<<c, j>>] = "keep")
    IN  [i \in 1..Len(idx) |-> ord[idx[i]]]

\* Faulty variant: only the first clause's entities reach the result.
flat_map_first(n, ord, verdicts) ==
    IF n = 0 THEN <<>> ELSE inner_collect(1, ord, verdicts)

\* .flat_map(..).collect::<Vec<String>>(): rayon keeps the clause order
RECURSIVE flat_map(_, _, _)
flat_map(n, ord, verdicts) ==
    IF n = 0 THEN <<>>
    ELSE flat_map(n - 1, ord, verdicts) \o inner_collect(n, ord, verdicts)

\* Faulty variant: nothing is deduplicated.
unique_keep_all(seq) == seq

\* itertools unique(): the first occurrence of each element is kept
RECURSIVE unique(_)
unique(seq) ==
    IF seq = <<>> THEN <<>>
    ELSE LET front == unique(SubSeq(seq, 1, Len(seq) - 1))
             last == seq[Len(seq)]
         IN  IF last \in ToSet(front) THEN front ELSE Append(front, last)

\* Faulty variant: a query without clauses selects every entity.
query_filter_by_components_all(components, ord, verdicts) ==
    IF components = <<>>
    THEN Ok(ord)
    ELSE Ok(unique(flat_map(Len(components), ord, verdicts)))

\* the value the NIF returns once every task has finished
query_filter_by_components(components, ord, verdicts) ==
    Ok(unique(flat_map(Len(components), ord, verdicts)))

Start_query_filter_by_components(Mappings, ClauseLists) ==
    /\ pc = "idle"
    /\ \E entities_components \in Mappings, components \in ClauseLists :
        /\ args' = [entities_components |-> entities_components,
                    components |-> components]
        /\ \E ord \in Orders(DOMAIN entities_components) :
            /\ order' = ord
            /\ kept' = [t \in Tasks(components, ord) |-> "pending"]
    /\ nif' = "query_filter_by_components"
    /\ pc' = "running"
    /\ UNCHANGED ret

\* one rayon task: evaluates the filter closure on its own clause and entry
Filter ==
    /\ pc = "running"
    /\ nif = "query_filter_by_components"
    /\ \E t \in DOMAIN kept :
        /\ kept[t] = "pending"
        /\ kept' = [kept EXCEPT ![t] =
                       filter(args.components[t[1]],
                              args.entities_components[order[t[2]]])]
    /\ UNCHANGED <<pc, nif, args, order, ret>>

\* the join: all tasks done, the partial vectors are concatenated and deduplicated
Collect ==
    /\ pc = "running"
    /\ nif = "query_filter_by_components"
    /\ \A t \in DOMAIN kept : kept[t] # "pending"
    /\ ret' = query_filter_by_components(args.components, order, kept)
    /\ pc' = "returned"
    /\ UNCHANGED <<nif, args, order, kept>>

Clause(w, wo) == [with |-> w, without |-> wo]

MatchEntities == {"e1", "e2"}

\* tag vectors an entity of the matcher's input mappings carries
MatchVectors == {<<"A">>, <<"B">>, <<"A", "B">>, <<"C">>, <<"B", "A", "B">>}

MatchMappings ==
    UNION {[S -> MatchVectors] : S \in SUBSET MatchEntities}

MatchClauses ==
    {Clause(<<>>, <<>>), Clause(<<"A">>, <<>>), Clause(<<"A", "B">>, <<>>),
     Clause(<<"A">>, <<"B">>), Clause(<<>>, <<"A", "B">>),
     Clause(<<"B">>, <<"A">>)}

MatchClauseLists == SeqsUpTo(MatchClauses, MaxClauses)

MatchCall == Start_query_filter_by_components(MatchMappings, MatchClauseLists)

MatchNext ==
    \/ MatchCall
    \/ Filter
    \/ Collect

SpecMatch == Init /\ [][MatchNext]_vars

----------------------------------------------------------------------------
(* The query pipeline on one store: the matcher's result is handed to     *)
(* build_return_vectors as its entity_ids.                                 *)

ScenarioMapping ==
    ("e1" :> <<"A", "B">>) @@ ("e2" :> <<"A">>) @@ ("e3" :> <<"B", "C">>)

ScenarioTable ==
    (<<"e1", "A">> :> Value(1)) @@ (<<"e1", "B">> :> Value(2))
        @@ (<<"e2", "A">> :> Value(3))

ScenarioClause == Clause(<<"A">>, <<"C">>)

\* the queries run against the store: one clause, then the selected columns
PipelineClauseLists ==
    {<<Clause(w, wo)>> : w \in {<<>>, <<"A">>, <<"B">>},
                         wo \in {<<>>, <<"C">>}}

PipelineSelects == {<<>>, <<"A">>, <<"A", "B">>}

PipelineOptionals == {<<>>, <<"B">>, <<"C", "B">>}

PipelineCall ==
    Start_query_filter_by_components({ScenarioMapping}, PipelineClauseLists)

PipelineBuild ==
    /\ pc = "returned"
    /\ nif = "query_filter_by_components"
    /\ \E return_entity \in BOOLEAN,
          select_components \in PipelineSelects,
          select_optional_components \in PipelineOptionals :
        /\ args' = [entities_components |-> args.entities_components,
                    components |-> args.components,
                    return_entity |-> return_entity,
                    select_components |-> select_components,
                    select_optional_components |-> select_optional_components,
                    entity_ids |-> ret.term,
                    filtered_components_map |-> ScenarioTable]
        /\ ret' = Ok(build_return_vectors(return_entity, select_components,
                         select_optional_components, ret.term, ScenarioTable))
    /\ nif' = "build_return_vectors"
    /\ UNCHANGED <<pc, order, kept>>

PipelineNext ==
    \/ PipelineCall
    \/ Filter
    \/ Collect
    \/ PipelineBuild

SpecPipeline == Init /\ [][PipelineNext]_vars

----------------------------------------------------------------------------
(* Properties of the sequential NIFs, checked under Spec *)

Returned(name) == pc = "returned" /\ nif = name

Ids(entities) == {entities[i].id : i \in 1..Len(entities)}

\* C7: the index builder returns a mapping whose keys are exactly the
\* distinct entity IDs of the input pairs; each key holds the tags paired
\* with it, in input order, duplicates kept; no pair is dropped and no key
\* has an empty tag sequence.
C7_IndexGroupsPairs ==
    Returned("list_entities_components") =>
        LET list == args.list
            m == ret.term
            paired(e) == SelectSeq(list, LAMBDA p : p[1] = e)
        IN  /\ ret.tag = "ok"
            /\ DOMAIN m = {list[i][1] : i \in 1..Len(list)}
            /\ \A e \in DOMAIN m :
                /\ m[e] = [i \in 1..Len(paired(e)) |-> paired(e)[i][2]]
                /\ Len(m[e]) >= 1
            /\ Cardinality({x \in (DOMAIN m) \X (1..Len(list)) :
                                x[2] <= Len(m[x[1]])}) = Len(list)

C7_Witness ==
    /\ Returned("list_entities_components")
    /\ Cardinality(DOMAIN ret.term) = 2
    /\ \E e \in DOMAIN ret.term :
        /\ Len(ret.term[e]) = 2
        /\ ret.term[e][1] = ret.term[e][2]

\* C5: the allow-list filter returns the mapping unchanged for an empty
\* allow-list; otherwise the result's keys are the keys of the mapping that
\* the allow-list names, each with the tag sequence it has in the mapping.
C5_RestrictToEntities ==
    Returned("query_filter_for_entities") =>
        LET m == args.entities_components
            a == args.filter_entities
            r == ret.term
        IN  /\ ret.tag = "ok"
            /\ a = <<>> => r = m
            /\ a # <<>> =>
                /\ DOMAIN r = (DOMAIN m) \cap Ids(a)
                /\ \A k \in DOMAIN r : r[k] = m[k]

C5_Witness ==
    /\ Returned("query_filter_for_entities")
    /\ Len(args.filter_entities) = 2
    /\ \E i \in 1..2 : args.filter_entities[i].id \notin DOMAIN args.entities_components
    /\ DOMAIN ret.term # {}
    /\ DOMAIN ret.term # DOMAIN args.entities_components

\* C6: the deny-list filter removes exactly the keys the deny-list names,
\* keeps every other key with its tag sequence, and applying it again with
\* the same deny-list changes nothing.
C6_ExcludeEntities ==
    Returned("query_filter_not_for_entities") =>
        LET m == args.entities_components
            d == args.reject_entities
            r == ret.term
        IN  /\ ret.tag = "ok"
            /\ DOMAIN r = (DOMAIN m) \ Ids(d)
            /\ \A k \in DOMAIN r : r[k] = m[k]
            /\ query_filter_not_for_entities(r, d) = r

C6_Witness ==
    /\ Returned("query_filter_not_for_entities")
    /\ Len(args.reject_entities) = 2
    /\ args.reject_entities[1].id \notin DOMAIN args.entities_components
    /\ args.reject_entities[2].id \in DOMAIN args.entities_components
    /\ DOMAIN ret.term # {}

\* every mandatory tag of the call has a value for entity e
HasAllMandatory(e) ==
    \A k \in 1..Len(args.select_components) :
        <<e, args.select_components[k]>> \in DOMAIN args.filtered_components_map

Offset == IF args.return_entity THEN 1 ELSE 0

Width == Offset + Len(args.select_components)
                + Len(args.select_optional_components)

\* the tuple the data model prescribes for a surviving entity e
Layout(e) ==
    LET table == args.filtered_components_map
        nm == Len(args.select_components)
    IN  [s \in 1..Width |->
            IF s <= Offset THEN Entity(e)
            ELSE IF s <= Offset + nm
                 THEN table[<<e, args.select_components[s - Offset]>>]
                 ELSE LET key == <<e, args.select_optional_components[s - Offset - nm]>>
                      IN  IF key \in DOMAIN table THEN table[key] ELSE nil]

\* C1: an entity of the ID list lacking the value of a mandatory tag
\* contributes no tuple: there are exactly as many tuples as list positions
\* holding an entity with every mandatory value, a flagged tuple never names
\* a lacking entity, and the mandatory slots of every tuple are the table's
\* values of one surviving entity (never a fill-in for a lookup miss).
C1_MandatoryMissDropsEntity ==
    Returned("build_return_vectors") =>
        LET ids == args.entity_ids
            table == args.filtered_components_map
            mand == args.select_components
            r == ret.term
        IN  /\ Len(r) = Cardinality({i \in 1..Len(ids) : HasAllMandatory(ids[i])})
            /\ \A j \in 1..Len(r) :
                /\ Len(r[j]) >= Offset + Len(mand)
                /\ args.return_entity => HasAllMandatory(r[j][1].id)
                /\ \E i \in 1..Len(ids) :
                    /\ HasAllMandatory(ids[i])
                    /\ \A k \in 1..Len(mand) :
                        r[j][Offset + k] = table[<<ids[i], mand[k]>>]

C1_Witness ==
    /\ Returned("build_return_vectors")
    /\ Len(args.entity_ids) = 2
    /\ Len(args.select_components) = 2
    /\ Len(args.select_optional_components) >= 1
    /\ \E i \in 1..2 :
        /\ ~HasAllMandatory(args.entity_ids[i])
        /\ <<args.entity_ids[i], args.select_components[1]>>
               \in DOMAIN args.filtered_components_map
        /\ <<args.entity_ids[i], args.select_optional_components[1]>>
               \in DOMAIN args.filtered_components_map
    /\ Len(ret.term) = 1

\* C2: every entity of the ID list with all mandatory values gets a tuple of
\* (1 if flagged) + |mandatory| + |optional| slots: the entity, the mandatory
\* values in caller order, then per optional tag the table value or nil;
\* every emitted tuple has that width.
C2_TupleLayout ==
    Returned("build_return_vectors") =>
        LET ids == args.entity_ids
            r == ret.term
        IN  /\ ret.tag = "ok"
            /\ \A i \in 1..Len(ids) :
                HasAllMandatory(ids[i]) =>
                    \E j \in 1..Len(r) : r[j] = Layout(ids[i])
            /\ \A j \in 1..Len(r) : Len(r[j]) = Width

C2_Witness ==
    /\ Returned("build_return_vectors")
    /\ args.return_entity
    /\ Len(args.select_components) = 1
    /\ Len(args.select_optional_components) = 2
    /\ \E e \in ToSet(args.entity_ids) :
        /\ HasAllMandatory(e)
        /\ <<e, args.select_optional_components[1]>>
               \notin DOMAIN args.filtered_components_map
        /\ <<e, args.select_optional_components[2]>>
               \in DOMAIN args.filtered_components_map
        /\ \E j \in 1..Len(ret.term) :
            /\ ret.term[j][1] = Entity(e)
            /\ ret.term[j][3] = nil
            /\ ret.term[j][4] # nil

\* C10: the output follows the input ID list: its tuples are, position by
\* position, those of the input list with the entities lacking a mandatory
\* value deleted (an ID listed twice yields two tuples).
C10_OutputFollowsInputOrder ==
    Returned("build_return_vectors") =>
        LET survivors == SelectSeq(args.entity_ids, HasAllMandatory)
            r == ret.term
        IN  /\ Len(r) = Len(survivors)
            /\ \A j \in 1..Len(r) : r[j] = Layout(survivors[j])

C10_Witness ==
    /\ Returned("build_return_vectors")
    /\ Len(args.entity_ids) = 2
    /\ args.entity_ids[1] = "e2"
    /\ args.entity_ids[2] = "e1"
    /\ Len(ret.term) = 2
    /\ ret.term[1] # ret.term[2]
    /\ ret.term[1] = Layout("e2")

----------------------------------------------------------------------------
(* Properties of the matcher, checked under SpecMatch *)

\* entity e of mapping m satisfies clause c: tags a superset of with,
\* disjoint from without
Satisfies(m, e, c) ==
    /\ ToSet(c.with) \subseteq ToSet(m[e])
    /\ ToSet(c.without) \cap ToSet(m[e]) = {}

Selected(m, cs) ==
    {e \in DOMAIN m : \E i \in 1..Len(cs) : Satisfies(m, e, cs[i])}

\* C3: for a non-empty clause list the matcher returns a list without
\* repeated IDs whose elements are exactly the keys of the mapping that
\* satisfy at least one clause.
C3_MatchesUnionOfClauses ==
    (Returned("query_filter_by_components") /\ args.components # <<>>) =>
        LET r == ret.term
        IN  /\ ret.tag = "ok"
            /\ \A i, j \in 1..Len(r) : r[i] = r[j] => i = j
            /\ ToSet(r) = Selected(args.entities_components, args.components)

C3_Witness ==
    /\ Returned("query_filter_by_components")
    /\ Len(args.components) = 2
    /\ args.components[1].without # <<>>
    /\ args.components[2] = Clause(<<>>, <<>>)
    /\ \E e \in DOMAIN args.entities_components :
        /\ Satisfies(args.entities_components, e, args.components[1])
        /\ \E f \in DOMAIN args.entities_components :
            /\ has_with_components(args.components[1], args.entities_components[f])
            /\ ~Satisfies(args.entities_components, f, args.components[1])
    /\ Len(ret.term) = 2

\* C4 as stated: a clause list of length zero raises InputError.
C4_ZeroClausesRaiseInputError ==
    (Returned("query_filter_by_components") /\ args.components = <<>>) =>
        ret.tag = "error"

\* C4 (amended): a clause list of length zero raises no error; the matcher
\* returns the empty entity list, for every membership mapping.
C4_ZeroClausesReturnEmptyList ==
    (Returned("query_filter_by_components") /\ args.components = <<>>) =>
        /\ ret.tag = "ok"
        /\ ret.term = <<>>

C4_Witness ==
    /\ Returned("query_filter_by_components")
    /\ args.components = <<>>
    /\ Cardinality(DOMAIN args.entities_components) = 2
    /\ ret = Ok(<<>>)

Permuted(cs, p) == [i \in 1..Len(cs) |-> cs[p[i]]]

\* the result of a run in which the clause list is cs and the map iterates
\* in order ord
Evaluate(m, cs, ord) ==
    query_filter_by_components(cs, ord,
        [t \in Tasks(cs, ord) |-> filter(cs[t[1]], m[ord[t[2]]])]).term

\* C8: whatever the order in which the workers finish, each finished task
\* holds the verdict of its own clause and entity, and the returned set of
\* IDs equals the set returned for every permutation of the clause list
\* and every iteration order of the mapping.
C8_ResultIndependentOfOrder ==
    (nif = "query_filter_by_components" /\ pc \in {"running", "returned"}) =>
        LET m == args.entities_components
            cs == args.components
        IN  /\ \A t \in DOMAIN kept :
                kept[t] # "pending" =>
                    kept[t] = (IF Satisfies(m, order[t[2]], cs[t[1]])
                               THEN "keep" ELSE "drop")
            /\ pc = "returned" =>
                \A p \in Orders(1..Len(cs)), o \in Orders(DOMAIN m) :
                    ToSet(Evaluate(m, Permuted(cs, p), o)) = ToSet(ret.term)

C8_Witness ==
    /\ Returned("query_filter_by_components")
    /\ Len(args.components) = 2
    /\ order = <<"e2", "e1">>
    /\ Selected(args.entities_components, <<args.components[1]>>) = {"e1"}
    /\ Selected(args.entities_components, <<args.components[2]>>) = {"e2"}
    /\ ret.term = <<"e1", "e2">>

----------------------------------------------------------------------------
(* The end-to-end scenario, checked under SpecPipeline *)

ScenarioBuildCall ==
    /\ Returned("build_return_vectors")
    /\ args.return_entity
    /\ args.select_components = <<"A">>
    /\ args.select_optional_components = <<"B">>
    /\ args.entity_ids = <<"e1", "e2">>
    /\ args.filtered_components_map = ScenarioTable

ScenarioTuples ==
    << <<Entity("e1"), Value(1), Value(2)>>, <<Entity("e2"), Value(3), nil>> >>

\* C9: on the mapping e1:[A,B], e2:[A], e3:[B,C] the clause with={A},
\* without={C} selects exactly {e1, e2}; build_return_vectors with the
\* entity flag, mandatory [A], optional [B], the list [e1, e2] and the
\* values (e1,A)=1, (e1,B)=2, (e2,A)=3 returns [[e1,1,2],[e2,3,nil]].
C9_EndToEndScenario ==
    /\ (/\ Returned("query_filter_by_components")
        /\ args.entities_components = ScenarioMapping
        /\ args.components = <<ScenarioClause>>)
           => (ret.tag = "ok" /\ Len(ret.term) = 2
               /\ ToSet(ret.term) = {"e1", "e2"})
    /\ ScenarioBuildCall => ret = Ok(ScenarioTuples)

C9_Witness ==
    /\ ScenarioBuildCall
    /\ args.entities_components = ScenarioMapping
    /\ args.components = <<ScenarioClause>>
    /\ ret.term = ScenarioTuples

=============================================================================
